---- MODULE Spec2Model ----
(***************************************************************************)
(* Request orchestration of the ClickHouse agent: the two LangGraph        *)
(* workflows of the repository (src/main.py, ClickHouseAgent, and          *)
(* src/core/graph_builder.py, create_clickhouse_graph), the nodes they     *)
(* run, and the tools those nodes call.                                    *)
(*                                                                         *)
(* Python strings are sequences of one-character strings, Python dicts are *)
(* functions from their keys to their values (a record), and a list of     *)
(* result rows is represented by its length.                               *)
(***************************************************************************)
EXTENDS Integers, Sequences, FiniteSets, TLC

VARIABLES
    impl,               \* which workflow runs: "main" (src/main.py) or "core" (src/core)
    user_question,      \* state["user_question"]
    node,               \* the graph node to run next, "END", "RAISED" or "returned"
    query_type,         \* the route: state["query_type"] / the value of _decide_route
    analysis_result,    \* state["analysis_result"] (core: the intent record)
    sql_result,         \* state["sql_result"] (core: state["sql_generation"])
    execution_result,   \* state["execution_result"] (core: state["query_execution"])
    csv_export_result,  \* state["csv_export_result"] (core: state["csv_export"])
    final_response,     \* state["final_response"]
    error_occurred,     \* core: state["error_occurred"]
    error_message,      \* core: state["error_message"]
    next_action,        \* core: state["next_action"]
    response,           \* the value process_question returned
    llm_analysis,       \* what the language model returned to the intent analyzer
    llm_sql,            \* what the language model returned to the SQL generator
    calls,              \* how often each tool was run in this request
    visited,            \* the nodes entered so far, in order
    agent_ready,        \* bridge: self.agent is not None
    connection_tested,  \* bridge: self.connection_tested
    thread_result,      \* bridge: self.thread_result
    caller,             \* bridge: where each caller of process_question is
    worker,             \* bridge: the state of the thread of each call
    returned,           \* bridge: what process_question returned to each caller
    latest_csv,         \* the request that wrote the most recent file of exports/
    attachments,        \* app: the attachments of the message shown for each request
    first_run           \* the invocation of process_question before this one, if any

vars == <<impl, user_question, node, query_type, analysis_result, sql_result,
          execution_result, csv_export_result, final_response, error_occurred,
          error_message, next_action, response, llm_analysis, llm_sql, calls,
          visited, agent_ready, connection_tested, thread_result, caller, worker,
          returned, latest_csv, attachments, first_run>>

\* the state of one request of the workflows
request_vars ==
    <<impl, user_question, node, query_type, analysis_result, sql_result,
      execution_result, csv_export_result, final_response, error_occurred,
      error_message, next_action, response, llm_analysis, llm_sql, calls, visited>>

\* the state of the bridge (src/integration/agent_bridge.py) and of the
\* application that calls it
bridge_vars ==
    <<agent_ready, connection_tested, thread_result, caller, worker, returned,
      latest_csv, attachments>>

\* what a step of a workflow leaves alone
other_vars == <<bridge_vars, first_run>>

-----------------------------------------------------------------------------
(* Python strings and dicts *)

LowerLetters ==
    <<"a","b","c","d","e","f","g","h","i","j","k","l","m",
      "n","o","p","q","r","s","t","u","v","w","x","y","z">>

UpperLetters ==
    <<"A","B","C","D","E","F","G","H","I","J","K","L","M",
      "N","O","P","Q","R","S","T","U","V","W","X","Y","Z">>

IndexIn(c, letters) ==
    IF \E i \in DOMAIN letters : letters[i] = c
    THEN CHOOSE i \in DOMAIN letters : letters[i] = c
    ELSE 0

LowerChar(c) ==
    IF IndexIn(c, UpperLetters) = 0 THEN c ELSE LowerLetters[IndexIn(c, UpperLetters)]

UpperChar(c) ==
    IF IndexIn(c, LowerLetters) = 0 THEN c ELSE UpperLetters[IndexIn(c, LowerLetters)]

\* str.lower()
Lower(s) == [i \in DOMAIN s |-> LowerChar(s[i])]

\* str.upper()
Upper(s) == [i \in DOMAIN s |-> UpperChar(s[i])]

IsSpace(c) == c \in {" ", "\n", "\t", "\r"}

\* str.strip()
Strip(s) ==
    IF \A i \in DOMAIN s : IsSpace(s[i]) THEN <<>>
    ELSE LET lo == CHOOSE i \in DOMAIN s :
                       ~IsSpace(s[i]) /\ \A j \in 1..(i - 1) : IsSpace(s[j])
             hi == CHOOSE i \in DOMAIN s :
                       ~IsSpace(s[i]) /\ \A j \in (i + 1)..Len(s) : IsSpace(s[j])
         IN  SubSeq(s, lo, hi)

\* str.rstrip(chars) for a one-character set
RStripChar(s, c) ==
    IF \A i \in DOMAIN s : s[i] = c THEN <<>>
    ELSE LET hi == CHOOSE i \in DOMAIN s :
                       s[i] # c /\ \A j \in (i + 1)..Len(s) : s[j] = c
         IN  SubSeq(s, 1, hi)

\* str.startswith(prefix)
StartsWith(s, prefix) ==
    Len(prefix) <= Len(s) /\ SubSeq(s, 1, Len(prefix)) = prefix

\* sub in s
Contains(s, sub) ==
    \E i \in 0..(Len(s) - Len(sub)) : SubSeq(s, i + 1, i + Len(sub)) = sub

\* s.split() : the maximal runs of non-space characters, in order
RECURSIVE SplitWords(_)
SplitWords(s) ==
    LET t == Strip(s) IN
    IF t = <<>> THEN <<>>
    ELSE LET n == IF \E i \in DOMAIN t : IsSpace(t[i])
                  THEN (CHOOSE i \in DOMAIN t :
                            IsSpace(t[i]) /\ \A j \in 1..(i - 1) : ~IsSpace(t[j])) - 1
                  ELSE Len(t)
         IN  <<SubSeq(t, 1, n)>> \o SplitWords(SubSeq(t, n + 1, Len(t)))

\* s.split('\n')
RECURSIVE SplitLines(_)
SplitLines(s) ==
    IF \E i \in DOMAIN s : s[i] = "\n"
    THEN LET n == CHOOSE i \in DOMAIN s : s[i] = "\n" /\ \A j \in 1..(i - 1) : s[j] # "\n"
         IN  <<SubSeq(s, 1, n - 1)>> \o SplitLines(SubSeq(s, n + 1, Len(s)))
    ELSE <<s>>

\* '\n'.join(lines)
RECURSIVE JoinLines(_)
JoinLines(lines) ==
    IF lines = <<>> THEN <<>>
    ELSE IF Len(lines) = 1 THEN lines[1]
    ELSE lines[1] \o <<"\n">> \o JoinLines(Tail(lines))

\* {} : the empty dict
EmptyDict == [k \in {} |-> TRUE]

\* d.get(k, default)
Get(d, k, default) == IF k \in DOMAIN d THEN d[k] ELSE default

\* k in d
HasKey(d, k) == k \in DOMAIN d

-----------------------------------------------------------------------------
(* The schema description: the keys of TABLE_SCHEMAS *)

T_RM ==
    <<"R", "M", "_", "A", "G", "G", "R", "E", "G", "A", "T", "E", "D", "_", "D", "A", "T", "A">>

T_PLMN ==
    <<"P", "L", "M", "N">>

T_CELL ==
    <<"C", "E", "L", "L">>

T_CUSTOMER ==
    <<"C", "U", "S", "T", "O", "M", "E", "R">>

TABLE_SCHEMAS == {T_RM, T_PLMN, T_CELL, T_CUSTOMER}

\* a table name that is no key of TABLE_SCHEMAS
T_ORDERS ==
    <<"O", "R", "D", "E", "R", "S">>

-----------------------------------------------------------------------------
(* The classifiers *)

KW_list_tables ==
    <<"l", "i", "s", "t", " ", "t", "a", "b", "l", "e", "s">>

KW_show_tables ==
    <<"s", "h", "o", "w", " ", "t", "a", "b", "l", "e", "s">>

KW_schema ==
    <<"s", "c", "h", "e", "m", "a">>

KW_table_structure ==
    <<"t", "a", "b", "l", "e", " ", "s", "t", "r", "u", "c", "t", "u", "r", "e">>

KW_describe_table ==
    <<"d", "e", "s", "c", "r", "i", "b", "e", " ", "t", "a", "b", "l", "e">>

KW_help ==
    <<"h", "e", "l", "p">>

KW_qmark ==
    <<"?">>

KW_aide ==
    <<"a", "i", "d", "e">>

KW_assistant ==
    <<"a", "s", "s", "i", "s", "t", "a", "n", "t">>

KW_how_to_use ==
    <<"h", "o", "w", " ", "t", "o", " ", "u", "s", "e">>

KW_usage ==
    <<"u", "s", "a", "g", "e">>

\* router_node: schema_keywords
schema_keywords ==
    {KW_list_tables, KW_show_tables, KW_schema, KW_table_structure, KW_describe_table}

\* router_node: help_keywords
help_keywords ==
    {KW_help, KW_qmark, KW_aide, KW_assistant, KW_how_to_use, KW_usage}

\* mutant of router_node_type: a question without a keyword is a help request
router_node_type_default_help(q) ==
    LET question == Strip(Lower(q)) IN
    IF \E keyword \in schema_keywords : Contains(question, keyword)
    THEN "schema_request"
    ELSE "help_request"

\* mutant of router_node_type: the help keywords are not looked for
router_node_type_no_help(q) ==
    LET question == Strip(Lower(q)) IN
    IF \E keyword \in schema_keywords : Contains(question, keyword)
    THEN "schema_request"
    ELSE "data_query"

\* router_node: the value it stores in state["query_type"]
router_node_type(q) ==
    LET question == Strip(Lower(q)) IN
    IF \E keyword \in schema_keywords : Contains(question, keyword)
    THEN "schema_request"
    ELSE IF \E keyword \in help_keywords : Contains(question, keyword)
    THEN "help_request"
    ELSE "data_query"

\* mutant of _decide_route: the route depends on whether the question was
\* asked before
decide_route_by_history(q) ==
    LET question == Strip(Lower(q)) IN
    IF first_run # [kind |-> "None"]
    THEN "help_request"
    ELSE IF \E cmd \in {KW_list_tables, KW_show_tables, KW_schema} : Contains(question, cmd)
    THEN "schema_request"
    ELSE IF question \in {KW_help, KW_qmark}
    THEN "help_request"
    ELSE "data_query"

\* ClickHouseAgent._decide_route
decide_route(q) ==
    LET question == Strip(Lower(q)) IN
    IF \E cmd \in {KW_list_tables, KW_show_tables, KW_schema} : Contains(question, cmd)
    THEN "schema_request"
    ELSE IF question \in {KW_help, KW_qmark}
    THEN "help_request"
    ELSE "data_query"

-----------------------------------------------------------------------------
(* The questions a request is started with *)

Q_list_tables ==
    <<"l", "i", "s", "t", " ", "t", "a", "b", "l", "e", "s">>

Q_help ==
    <<"h", "e", "l", "p">>

Q_top5 ==
    <<"t", "o", "p", " ", "5", " ", "c", "u", "s", "t", "o", "m", "e", "r", "s", " ", "b", "y", " ", "u", "s", "a", "g", "e">>

Q_help_schema ==
    <<"H", "e", "l", "p", ":", " ", "s", "h", "o", "w", " ", "S", "C", "H", "E", "M", "A">>

Q_describe_customer ==
    <<"d", "e", "s", "c", "r", "i", "b", "e", " ", "t", "a", "b", "l", "e", " ", "C", "U", "S", "T", "O", "M", "E", "R">>

Q_schema_bogus ==
    <<"s", "c", "h", "e", "m", "a", " ", "O", "R", "D", "E", "R", "S">>

Q_count ==
    <<"h", "o", "w", " ", "m", "a", "n", "y", " ", "c", "e", "l", "l", "s">>

\* "help: table structure?"
Q_help_structure ==
    <<"h", "e", "l", "p", ":", " ", "t", "a", "b", "l", "e", " ", "s", "t", "r", "u", "c", "t", "u", "r", "e", "?">>

Questions ==
    {Q_list_tables, Q_help, Q_top5, Q_help_schema, Q_describe_customer, Q_schema_bogus,
     Q_count, Q_help_structure}

-----------------------------------------------------------------------------
(* SmartIntentAnalyzerTool.  Confidences are percentages (0.5 is 50). *)

\* _fallback_parse, of a response that is not JSON.  french and geo say
\* whether the response holds one of the words the code looks for.
fallback_parse(r) ==
    [language |-> IF r.french THEN "french" ELSE "english",
     language_confidence |-> 50,
     intent_analysis |->
        [primary_intent |-> IF r.geo THEN "geographic_distribution" ELSE "general_query",
         intent_confidence |-> 50],
     table_analysis |->
        [required_tables |-> IF r.geo THEN <<T_RM, T_PLMN>> ELSE <<T_RM>>,
         primary_table |-> T_RM]]

\* _parse_llm_analysis: json.loads of the response, _fallback_parse on a
\* JSONDecodeError
parse_llm_analysis(r) ==
    IF r.kind = "text" THEN fallback_parse(r)
    ELSE LET base == [language_confidence |-> r.language_confidence,
                      intent_analysis |-> [intent_confidence |-> r.intent_confidence],
                      join_analysis |-> [required_joins |-> r.required_joins]]
         IN  IF r.has_table_analysis
             THEN [table_analysis |-> [required_tables |-> r.required_tables,
                                       primary_table |-> r.primary_table]] @@ base
             ELSE base

\* _calculate_confidence, in three-hundredths: the mean of three percentages
calculate_confidence(analysis) ==
    LET lang_conf == Get(analysis, "language_confidence", 50)
        intent_conf == Get(Get(analysis, "intent_analysis", EmptyDict), "intent_confidence", 50)
        required_tables ==
            Get(Get(analysis, "table_analysis", EmptyDict), "required_tables", <<>>)
        valid == SelectSeq(required_tables, LAMBDA t : t \in TABLE_SCHEMAS)
        len == IF Len(required_tables) > 1 THEN Len(required_tables) ELSE 1
    IN  lang_conf + intent_conf + (100 * Len(valid)) \div len

\* mutant of validate_and_enhance_analysis: no default table, an analysis
\* without a valid table is an error
validate_and_enhance_analysis_strict(parsed) ==
    LET table_analysis == Get(parsed, "table_analysis", EmptyDict)
        required_tables == Get(table_analysis, "required_tables", <<>>)
        kept == SelectSeq(required_tables, LAMBDA t : t \in TABLE_SCHEMAS)
    IN  IF ~HasKey(parsed, "table_analysis") \/ kept = <<>>
        THEN [raised |-> TRUE, error |-> "no valid table"]
        ELSE [raised |-> FALSE,
              value |-> [overall_confidence |-> calculate_confidence(parsed)] @@
                        [parsed EXCEPT !["table_analysis"] =
                            [required_tables |-> kept] @@ table_analysis]]

\* _validate_and_enhance_analysis: [raised |-> TRUE, error |-> e] when the
\* code raises, [raised |-> FALSE, value |-> the validated analysis] otherwise
validate_and_enhance_analysis(parsed) ==
    LET table_analysis == Get(parsed, "table_analysis", EmptyDict)
        required_tables == Get(table_analysis, "required_tables", <<>>)
        kept == SelectSeq(required_tables, LAMBDA t : t \in TABLE_SCHEMAS)
        valid_tables == IF kept = <<>> THEN <<T_RM>> ELSE kept
        join_analysis == Get(parsed, "join_analysis", EmptyDict)
        joins == Get(join_analysis, "required_joins", <<>>)
        validated_joins ==
            SelectSeq(joins, LAMBDA j : j.from_table \in TABLE_SCHEMAS
                                         /\ j.to_table \in TABLE_SCHEMAS)
    IN  IF ~HasKey(parsed, "table_analysis")
        THEN [raised |-> TRUE, error |-> "'table_analysis'"]
        ELSE LET p1 == [parsed EXCEPT !["table_analysis"] =
                           [required_tables |-> valid_tables] @@ table_analysis]
                 p2 == IF joins # <<>>
                       THEN [p1 EXCEPT !["join_analysis"] =
                               [required_joins |-> validated_joins] @@ join_analysis]
                       ELSE p1
             IN  [raised |-> FALSE,
                  value |-> [overall_confidence |-> calculate_confidence(p2)] @@ p2]

\* mutant of intent_analyzer_run: a response that is not JSON is an error
intent_analyzer_run_no_fallback(q, r) ==
    IF r.kind \in {"raise", "json_list", "text"}
    THEN [success |-> FALSE, error |-> "cannot parse the analysis",
          message |-> "Smart intent analysis failed"]
    ELSE LET v == validate_and_enhance_analysis(parse_llm_analysis(r))
         IN  IF v.raised
             THEN [success |-> FALSE, error |-> v.error,
                   message |-> "Smart intent analysis failed"]
             ELSE [success |-> TRUE, user_question |-> q, llm_raw_analysis |-> r,
                   message |-> "Smart intent analysis completed successfully"]
                  @@ v.value

\* SmartIntentAnalyzerTool._run, given what the language model returned
intent_analyzer_run(q, r) ==
    IF r.kind = "raise"
    THEN [success |-> FALSE, error |-> "llm call failed",
          message |-> "Smart intent analysis failed"]
    ELSE IF r.kind = "json_list"
    THEN [success |-> FALSE, error |-> "'list' object has no attribute 'get'",
          message |-> "Smart intent analysis failed"]
    ELSE LET v == validate_and_enhance_analysis(parse_llm_analysis(r))
         IN  IF v.raised
             THEN [success |-> FALSE, error |-> v.error,
                   message |-> "Smart intent analysis failed"]
             ELSE [success |-> TRUE, user_question |-> q, llm_raw_analysis |-> r,
                   message |-> "Smart intent analysis completed successfully"]
                  @@ v.value

-----------------------------------------------------------------------------
(* SmartSqlGeneratorTool *)

KW_SELECT ==
    <<"S", "E", "L", "E", "C", "T">>

KW_DROP ==
    <<"D", "R", "O", "P">>

KW_DELETE ==
    <<"D", "E", "L", "E", "T", "E">>

KW_UPDATE ==
    <<"U", "P", "D", "A", "T", "E">>

KW_INSERT ==
    <<"I", "N", "S", "E", "R", "T">>

KW_ALTER ==
    <<"A", "L", "T", "E", "R">>

KW_CREATE ==
    <<"C", "R", "E", "A", "T", "E">>

KW_TRUNCATE ==
    <<"T", "R", "U", "N", "C", "A", "T", "E">>

\* the backquote character
BQ == "backquote"

FENCE ==
    <<BQ, BQ, BQ>>

\* _clean_and_validate_sql: dangerous_keywords
dangerous_keywords ==
    <<KW_DROP, KW_DELETE, KW_UPDATE, KW_INSERT, KW_ALTER, KW_CREATE, KW_TRUNCATE>>

\* the messages of the ValueError raised for each dangerous keyword
dangerous_keyword_errors ==
    <<"Query contains dangerous keyword: DROP", "Query contains dangerous keyword: DELETE",
      "Query contains dangerous keyword: UPDATE", "Query contains dangerous keyword: INSERT",
      "Query contains dangerous keyword: ALTER", "Query contains dangerous keyword: CREATE",
      "Query contains dangerous keyword: TRUNCATE">>

KW_LIMIT ==
    <<"L", "I", "M", "I", "T">>

SQL_plain ==
    <<"S", "E", "L", "E", "C", "T", " ", "a", " ", "F", "R", "O", "M", " ", "t", " ", "L", "I", "M", "I", "T", " ", "5">>

SQL_fenced ==
    <<BQ, BQ, BQ, "s", "q", "l", "\n", "S", "E", "L", "E", "C", "T", " ", "a", " ", "F", "R", "O", "M", " ", "t", "\n", BQ, BQ, BQ>>

SQL_semi ==
    <<"s", "e", "l", "e", "c", "t", " ", "a", " ", "f", "r", "o", "m", " ", "t", ";", ";", " ">>

\* a SELECT followed by two semicolons with a space between them
SQL_semis ==
    <<"S", "E", "L", "E", "C", "T", " ", "a", " ", "F", "R", "O", "M", " ", "t", ";", " ", ";">>

SQL_drop ==
    <<"D", "R", "O", "P", " ", "T", "A", "B", "L", "E", " ", "t">>

SQL_select_drop ==
    <<"S", "E", "L", "E", "C", "T", " ", "1", ";", " ", "d", "r", "o", "p", " ", "t", "a", "b", "l", "e", " ", "t">>

SQL_created ==
    <<"S", "E", "L", "E", "C", "T", " ", "c", "r", "e", "a", "t", "e", "d", "_", "a", "t", " ", "F", "R", "O", "M", " ", "t">>

SQL_show ==
    <<"S", "H", "O", "W", " ", "T", "A", "B", "L", "E", "S">>

SQL_two ==
    <<"S", "E", "L", "E", "C", "T", " ", "1", ";", " ", "S", "E", "L", "E", "C", "T", " ", "2">>

\* _clean_and_validate_sql: the query with its markdown fence, trailing
\* semicolons and surrounding white space removed
clean_sql(sql_query) ==
    LET lines == SplitLines(sql_query)
        unfenced == IF StartsWith(sql_query, FENCE) /\ Len(lines) > 2
                    THEN JoinLines(SubSeq(lines, 2, Len(lines) - 1))
                    ELSE sql_query
    IN  Strip(RStripChar(unfenced, ";"))

\* mutant of clean_and_validate_sql: the dangerous keywords are not looked for
clean_and_validate_sql_select_only(sql_query) ==
    IF ~StartsWith(Strip(Upper(clean_sql(sql_query))), KW_SELECT)
    THEN [raised |-> TRUE, error |-> "Generated query must be a SELECT statement"]
    ELSE [raised |-> FALSE, value |-> clean_sql(sql_query)]

\* _clean_and_validate_sql: [raised |-> TRUE, error |-> e] when the code
\* raises ValueError, [raised |-> FALSE, value |-> the cleaned SQL] otherwise
clean_and_validate_sql(sql_query) ==
    LET cleaned == clean_sql(sql_query)
        sql_upper == Upper(cleaned)
        found == {i \in DOMAIN dangerous_keywords :
                      Contains(sql_upper, dangerous_keywords[i])}
    IN  IF ~StartsWith(Strip(sql_upper), KW_SELECT)
        THEN [raised |-> TRUE, error |-> "Generated query must be a SELECT statement"]
        ELSE IF found # {}
        THEN [raised |-> TRUE,
              error |-> dangerous_keyword_errors[
                  CHOOSE i \in found : \A j \in found : i <= j]]
        ELSE [raised |-> FALSE, value |-> cleaned]

\* _extract_sql_metadata: the has_limit entry
extract_sql_metadata(sql_query) ==
    [query_type |-> "SELECT", has_limit |-> Contains(Upper(sql_query), KW_LIMIT)]

\* SmartSqlGeneratorTool._run, given what the language model returned
sql_generator_run(intent_analysis, r) ==
    IF DOMAIN intent_analysis = {}
    THEN [success |-> FALSE,
          error |-> "Intent analysis is required for smart SQL generation",
          message |-> "Smart SQL generation failed"]
    ELSE IF r.kind = "raise"
    THEN [success |-> FALSE, error |-> "llm call failed",
          message |-> "Smart SQL generation failed"]
    ELSE LET c == clean_and_validate_sql(Strip(r.text))
         IN  IF c.raised
             THEN [success |-> FALSE, error |-> c.error,
                   message |-> "Smart SQL generation failed"]
             ELSE [success |-> TRUE, sql_query |-> c.value,
                   sql_metadata |-> extract_sql_metadata(c.value),
                   intent_confidence |-> Get(intent_analysis, "overall_confidence", 240),
                   message |-> "Smart SQL generation completed successfully"]

-----------------------------------------------------------------------------
(* ResponseFormatterTool.  A response text is represented by the parts the  *)
(* code builds it from.                                                    *)

\* _format_error_response
format_error_response(error_result) ==
    [kind |-> "error",
     error |-> Get(error_result, "error", "Unknown error"),
     suggestion |-> Get(error_result, "suggestion", "")]

\* _format_files_section: is the CSV export listed
format_files_section(csv_result) ==
    Get(csv_result, "success", FALSE)

\* mutant of format_streamlit_query_response: an empty result is reported as
\* an error
format_streamlit_query_response_empty_is_error(result, csv_result) ==
    IF ~Get(result, "success", TRUE)
       \/ Get(Get(result, "result", EmptyDict), "data", 0) = 0
    THEN format_error_response(result)
    ELSE [kind |-> "query",
          record_count |-> Get(Get(result, "result", EmptyDict), "data", 0),
          csv_listed |-> format_files_section(csv_result),
          executed_query |-> Get(result, "executed_query", <<>>)]

\* _format_streamlit_query_response
format_streamlit_query_response(result, csv_result) ==
    IF ~Get(result, "success", TRUE)
    THEN format_error_response(result)
    ELSE LET query_result == Get(result, "result", EmptyDict) IN
         IF Get(query_result, "data", 0) = 0
         THEN [kind |-> "no_data"]
         ELSE [kind |-> "query",
               record_count |-> Get(query_result, "data", 0),
               csv_listed |-> format_files_section(csv_result),
               executed_query |-> Get(result, "executed_query", <<>>)]

\* _format_schema_response
format_schema_response(schema_result) ==
    IF ~Get(schema_result, "success", TRUE)
    THEN [kind |-> "schema_error", error |-> Get(schema_result, "error", "Unknown error")]
    ELSE IF HasKey(schema_result, "tables")
    THEN [kind |-> "schema_tables", tables |-> schema_result.tables]
    ELSE IF HasKey(schema_result, "schema")
    THEN [kind |-> "schema_table", table_name |-> Get(schema_result, "table_name", "Unknown")]
    ELSE [kind |-> "no_schema_information"]

\* format_help_response
format_help_response == [kind |-> "help"]

\* ResponseFormatterTool._run: the formatted_response entry of its result
response_formatter_run(query_result, response_type, csv_result) ==
    IF response_type = "schema" THEN format_schema_response(query_result)
    ELSE IF response_type = "error" THEN format_error_response(query_result)
    ELSE format_streamlit_query_response(query_result, csv_result)

-----------------------------------------------------------------------------
(* What the language model, the database and the file system may answer *)

MaxTables == 2

MaxRows == 2

ProposedTables == {T_RM, T_PLMN, T_ORDERS}

SeqsUpTo(S, n) == UNION {[1..k -> S] : k \in 0..n}

ConfidenceLevels == {40, 90}

\* the required_joins the language model may propose: none, a join with all
\* its fields, and joins that name only their tables
JoinLists ==
    {<<>>,
     <<[from_table |-> T_RM, to_table |-> T_PLMN, join_condition |-> "PLMN",
        purpose |-> "country of the PLMN", join_type |-> "INNER"]>>,
     <<[from_table |-> T_RM, to_table |-> T_PLMN],
       [from_table |-> T_RM, to_table |-> T_ORDERS]>>}

\* the primary_table of an analysis: a table of the schema, or one that is
\* not in it
PrimaryTables == {T_RM, T_ORDERS}

\* the answers of the language model to the intent prompt
IntentResponses ==
    {[kind |-> "raise"], [kind |-> "json_list"]}
    \cup {[kind |-> "text", french |-> f, geo |-> g] : f, g \in BOOLEAN}
    \cup {[kind |-> "json", has_table_analysis |-> TRUE, required_tables |-> ts,
           primary_table |-> pt, language_confidence |-> 90, intent_confidence |-> c,
           required_joins |-> js] :
              ts \in SeqsUpTo(ProposedTables, MaxTables), pt \in PrimaryTables,
              c \in ConfidenceLevels, js \in JoinLists}
    \cup {[kind |-> "json", has_table_analysis |-> FALSE, required_tables |-> <<>>,
           language_confidence |-> 90, intent_confidence |-> c, required_joins |-> <<>>] :
              c \in ConfidenceLevels}

SqlTexts ==
    {SQL_plain, SQL_fenced, SQL_semi, SQL_semis, SQL_drop, SQL_select_drop, SQL_created,
     SQL_show, SQL_two}

\* the answers of the language model to the SQL prompt
SqlResponses ==
    {[kind |-> "raise"]} \cup {[kind |-> "text", text |-> t] : t \in SqlTexts}

\* the outcomes of QueryExecutionTool._run
QueryOutcomes ==
    {[kind |-> "raise"]}
    \cup {[kind |-> "fail", hint |-> h] : h \in BOOLEAN}
    \cup {[kind |-> "ok", rows |-> n] : n \in 0..MaxRows}

\* the dict QueryExecutionTool._run returns
query_executor_result(o, sql_query) ==
    IF o.kind = "ok"
    THEN [success |-> TRUE,
          result |-> [data |-> o.rows, row_count |-> o.rows],
          executed_query |-> sql_query]
    ELSE IF o.hint
    THEN [success |-> FALSE, error |-> "database error",
          suggestion |-> "check the connection"]
    ELSE [success |-> FALSE, error |-> "database error"]

\* the outcomes of CsvExportTool._run
ExportOutcomes == {"ok", "fail", "raise"}

\* the dict CsvExportTool._run returns
csv_exporter_result(o) ==
    IF o = "ok"
    THEN [success |-> TRUE, filename |-> "export.csv", file_path |-> "exports/export.csv"]
    ELSE [success |-> FALSE, error |-> "cannot write file"]

-----------------------------------------------------------------------------
(* The bridge of the web application: TelmiAgentBridge, and the module      *)
(* instance telmi_bridge that every session of the application calls       *)

MaxRequests == 2

\* the calls of telmi_bridge.process_question, each with its own question
Requests == 1..MaxRequests

\* None
None == [kind |-> "None"]

\* TelmiAgentBridge.__init__, and no call made yet
bridge_idle ==
    /\ agent_ready = FALSE
    /\ connection_tested = FALSE
    /\ thread_result = None
    /\ caller = [r \in Requests |-> "idle"]
    /\ worker = [r \in Requests |-> "none"]
    /\ returned = [r \in Requests |-> None]
    /\ latest_csv = 0
    /\ attachments = [r \in Requests |-> 0]

-----------------------------------------------------------------------------
(* The request state *)

NoCalls == [analyzer |-> 0, synthesizer |-> 0, query |-> 0, export |-> 0, format |-> 0]

\* ClickHouseAgent.process_question: initial_state, and the entry point of
\* the graph
Init ==
    /\ impl \in {"main", "core"}
    /\ user_question \in Questions
    /\ node = IF impl = "main" THEN "route_question" ELSE "router"
    /\ query_type = "unset"
    /\ analysis_result = EmptyDict
    /\ sql_result = EmptyDict
    /\ execution_result = EmptyDict
    /\ csv_export_result = EmptyDict
    /\ final_response = [kind |-> "empty"]
    /\ error_occurred = FALSE
    /\ error_message = ""
    /\ next_action = ""
    /\ response = [kind |-> "none"]
    /\ llm_analysis = [kind |-> "none"]
    /\ llm_sql = [kind |-> "none"]
    /\ calls = NoCalls
    /\ visited = <<>>
    /\ bridge_idle
    /\ first_run = None

Enter(n) == visited' = Append(visited, n)

Called(tool) == calls' = [calls EXCEPT ![tool] = @ + 1]

-----------------------------------------------------------------------------
(* The workflow of src/main.py *)

\* the edges of ClickHouseAgent._build_graph
main_next_node(n, route) ==
    CASE n = "route_question" ->
            (CASE route = "data_query" -> "analyze_intent"
               [] route = "schema_request" -> "handle_schema_request"
               [] route = "help_request" -> "handle_help_request")
      [] n = "analyze_intent" -> "generate_sql"
      [] n = "generate_sql" -> "execute_query"
      [] n = "execute_query" -> "export_csv"
      [] n = "export_csv" -> "format_response"
      [] n = "handle_schema_request" -> "format_response"
      [] n = "handle_help_request" -> "format_response"
      [] n = "format_response" -> "END"

\* _route_question, and the conditional edge _decide_route
route_question ==
    /\ impl = "main" /\ node = "route_question"
    /\ UNCHANGED other_vars
    /\ Enter("route_question")
    /\ query_type' = decide_route(user_question)
    /\ node' = main_next_node(node, decide_route(user_question))
    /\ UNCHANGED <<impl, user_question, analysis_result, sql_result, execution_result,
                   csv_export_result, final_response, error_occurred, error_message,
                   next_action, response, llm_analysis, llm_sql, calls>>

\* _handle_help_request
handle_help_request ==
    /\ impl = "main" /\ node = "handle_help_request"
    /\ UNCHANGED other_vars
    /\ Enter("handle_help_request")
    /\ execution_result' = [success |-> TRUE, help_content |-> format_help_response,
                            message |-> "Help information"]
    /\ csv_export_result' = [success |-> FALSE, message |-> "No data to export"]
    /\ node' = main_next_node(node, query_type)
    /\ UNCHANGED <<impl, user_question, query_type, analysis_result, sql_result,
                   final_response, error_occurred, error_message, next_action, response,
                   llm_analysis, llm_sql, calls>>

\* _handle_schema_request: the execution_result it leaves
main_schema_result(q, old) ==
    LET question == Lower(q)
        parts == SplitWords(q)
        table_name == IF Len(parts) > 1 THEN parts[2] ELSE <<>>
    IN  IF Contains(question, KW_list_tables) \/ Contains(question, KW_show_tables)
        THEN [success |-> TRUE, tables |-> TABLE_SCHEMAS, message |-> "Found tables"]
        ELSE IF StartsWith(question, KW_schema)
        THEN IF table_name # <<>>
             THEN IF Upper(table_name) \in TABLE_SCHEMAS
                  THEN [success |-> TRUE, schema |-> Upper(table_name),
                        table_name |-> Upper(table_name), message |-> "Schema for table"]
                  ELSE [success |-> FALSE,
                        error |-> [text |-> "Table not found", table |-> table_name],
                        available_tables |-> TABLE_SCHEMAS]
             ELSE [success |-> TRUE, tables |-> TABLE_SCHEMAS,
                   message |-> "All available table schemas"]
        ELSE old

handle_schema_request ==
    /\ impl = "main" /\ node = "handle_schema_request"
    /\ UNCHANGED other_vars
    /\ Enter("handle_schema_request")
    /\ execution_result' = main_schema_result(user_question, execution_result)
    /\ csv_export_result' = [success |-> FALSE, message |-> "No data to export"]
    /\ node' = main_next_node(node, query_type)
    /\ UNCHANGED <<impl, user_question, query_type, analysis_result, sql_result,
                   final_response, error_occurred, error_message, next_action, response,
                   llm_analysis, llm_sql, calls>>

\* ClickHouseAgent.__init__: the default of verbose
verbose == TRUE

\* _log_intent_analysis_thoughts: it reads join['join_condition'],
\* join['purpose'] and join['join_type'] of every required join, and raises
\* KeyError when one is missing
log_intent_analysis_raises(intent_result) ==
    LET joins == Get(Get(intent_result, "join_analysis", EmptyDict), "required_joins", <<>>)
    IN  \E i \in DOMAIN joins :
           ~({"join_condition", "purpose", "join_type"} \subseteq DOMAIN joins[i])

\* _analyze_intent.  An exception of the log leaves the node and the graph.
analyze_intent ==
    /\ impl = "main" /\ node = "analyze_intent"
    /\ UNCHANGED other_vars
    /\ Enter("analyze_intent")
    /\ \E r \in IntentResponses :
          LET intent_result == intent_analyzer_run(user_question, r) IN
          /\ llm_analysis' = r
          /\ analysis_result' = intent_result
          /\ node' = IF intent_result.success /\ verbose
                        /\ log_intent_analysis_raises(intent_result)
                     THEN "RAISED"
                     ELSE main_next_node(node, query_type)
    /\ Called("analyzer")
    /\ UNCHANGED <<impl, user_question, query_type, sql_result, execution_result,
                   csv_export_result, final_response, error_occurred, error_message,
                   next_action, response, llm_sql>>

\* _generate_sql: intent_data
intent_data(analysis) ==
    [key \in DOMAIN analysis \ {"success", "message", "llm_raw_analysis", "user_question"}
        |-> analysis[key]]

\* mutant of intent_failed: an analysis of low confidence counts as failed
intent_failed_low_confidence(analysis) ==
    ~Get(analysis, "success", FALSE) \/ Get(analysis, "overall_confidence", 0) < 250

\* mutant of intent_failed: the failed analysis is not noticed
intent_failed_ignored(analysis) == FALSE

\* _generate_sql: the test that skips the generation
intent_failed(analysis) == ~Get(analysis, "success", FALSE)

\* _generate_sql
generate_sql ==
    /\ impl = "main" /\ node = "generate_sql"
    /\ UNCHANGED other_vars
    /\ Enter("generate_sql")
    /\ IF intent_failed(analysis_result)
       THEN /\ sql_result' = [success |-> FALSE, error |-> "Intent analysis failed",
                              message |-> "Cannot generate SQL without intent analysis"]
            /\ UNCHANGED <<llm_sql, calls>>
       ELSE \E r \in SqlResponses :
               /\ llm_sql' = r
               /\ sql_result' = sql_generator_run(intent_data(analysis_result), r)
               /\ Called("synthesizer")
    /\ node' = main_next_node(node, query_type)
    /\ UNCHANGED <<impl, user_question, query_type, analysis_result, execution_result,
                   csv_export_result, final_response, error_occurred, error_message,
                   next_action, response, llm_analysis>>

\* mutant of sql_failed: the failed generation is not noticed
sql_failed_ignored(sql) == FALSE

\* _execute_query: the test that skips the execution
sql_failed(sql) == ~Get(sql, "success", FALSE)

\* _execute_query; a tool that raises ends graph.invoke with the exception
execute_query ==
    /\ impl = "main" /\ node = "execute_query"
    /\ UNCHANGED other_vars
    /\ Enter("execute_query")
    /\ IF sql_failed(sql_result)
       THEN /\ execution_result' =
                  [success |-> FALSE, error |-> "SQL generation failed",
                   message |-> "Cannot execute query - SQL generation failed"]
            /\ node' = main_next_node(node, query_type)
            /\ UNCHANGED calls
       ELSE \E o \in QueryOutcomes :
               /\ Called("query")
               /\ IF o.kind = "raise"
                  THEN node' = "RAISED" /\ UNCHANGED execution_result
                  ELSE /\ execution_result' =
                             query_executor_result(o, Get(sql_result, "sql_query", <<>>))
                       /\ node' = main_next_node(node, query_type)
    /\ UNCHANGED <<impl, user_question, query_type, analysis_result, sql_result,
                   csv_export_result, final_response, error_occurred, error_message,
                   next_action, response, llm_analysis, llm_sql>>

\* mutant of has_data: a successful result is exported whatever its rows
has_data_success_only(result) == Get(result, "success", FALSE)

\* the test of _export_csv and export_csv_node: a successful result with data
has_data(result) ==
    Get(result, "success", FALSE) /\ Get(Get(result, "result", EmptyDict), "data", 0) > 0

\* _export_csv
export_csv ==
    /\ impl = "main" /\ node = "export_csv"
    /\ UNCHANGED other_vars
    /\ Enter("export_csv")
    /\ IF has_data(execution_result)
       THEN \E o \in ExportOutcomes :
               /\ Called("export")
               /\ IF o = "raise"
                  THEN node' = "RAISED" /\ UNCHANGED csv_export_result
                  ELSE /\ csv_export_result' = csv_exporter_result(o)
                       /\ node' = main_next_node(node, query_type)
       ELSE /\ csv_export_result' =
                  [success |-> FALSE, message |-> "No data available for CSV export"]
            /\ node' = main_next_node(node, query_type)
            /\ UNCHANGED calls
    /\ UNCHANGED <<impl, user_question, query_type, analysis_result, sql_result,
                   execution_result, final_response, error_occurred, error_message,
                   next_action, response, llm_analysis, llm_sql>>

\* _format_response: the response type it chooses
main_response_type(result) ==
    IF HasKey(result, "tables") \/ HasKey(result, "schema") THEN "schema"
    ELSE IF HasKey(result, "help_content") THEN "help"
    ELSE IF ~Get(result, "success", TRUE) THEN "error"
    ELSE "query"

\* _format_response
format_response ==
    /\ impl = "main" /\ node = "format_response"
    /\ UNCHANGED other_vars
    /\ Enter("format_response")
    /\ Called("format")
    /\ final_response' =
          IF main_response_type(execution_result) = "help"
          THEN execution_result.help_content
          ELSE response_formatter_run(execution_result,
                                      main_response_type(execution_result),
                                      csv_export_result)
    /\ node' = main_next_node(node, query_type)
    /\ UNCHANGED <<impl, user_question, query_type, analysis_result, sql_result,
                   execution_result, csv_export_result, error_occurred, error_message,
                   next_action, response, llm_analysis, llm_sql>>

\* ClickHouseAgent.process_question: what it returns once graph.invoke has
\* ended or raised; the text it returns in the second case ends with str(e)
process_question_return ==
    /\ impl = "main" /\ node \in {"END", "RAISED"}
    /\ UNCHANGED other_vars
    /\ response' = IF node = "END" THEN final_response
                   ELSE [kind |-> "error",
                         error |-> "An error occurred while processing your question",
                         exception |-> "graph.invoke raised",
                         suggestion |-> "Please try again with a different question."]
    /\ node' = "returned"
    /\ UNCHANGED <<impl, user_question, query_type, analysis_result, sql_result,
                   execution_result, csv_export_result, final_response, error_occurred,
                   error_message, next_action, llm_analysis, llm_sql, calls, visited>>

-----------------------------------------------------------------------------
(* The workflow of src/core/graph_builder.py.  In this workflow             *)
(* analysis_result, sql_result, execution_result and csv_export_result     *)
(* stand for the intent record, state["sql_generation"],                   *)
(* state["query_execution"] and state["csv_export"].                       *)

\* mutant of core_next_node: every route enters the data path
core_next_node_data_path(n, route) ==
    CASE n = "router" -> "agent_intent_analysis"
      [] n = "agent_intent_analysis" -> "agent_sql_generation"
      [] n = "agent_sql_generation" -> "execute_query"
      [] n = "execute_query" -> "export_csv"
      [] n = "export_csv" -> "format_response"
      [] n = "format_response" -> "END"

\* the edges of create_clickhouse_graph
core_next_node(n, route) ==
    CASE n = "router" ->
            (CASE route = "data_query" -> "agent_intent_analysis"
               [] route = "schema_request" -> "format_response"
               [] route = "help_request" -> "format_response")
      [] n = "agent_intent_analysis" -> "agent_sql_generation"
      [] n = "agent_sql_generation" -> "execute_query"
      [] n = "execute_query" -> "export_csv"
      [] n = "export_csv" -> "format_response"
      [] n = "format_response" -> "END"

\* router_node
router_node ==
    /\ impl = "core" /\ node = "router"
    /\ UNCHANGED other_vars
    /\ Enter("router")
    /\ query_type' = router_node_type(user_question)
    /\ node' = core_next_node(node, router_node_type(user_question))
    /\ UNCHANGED <<impl, user_question, analysis_result, sql_result, execution_result,
                   csv_export_result, final_response, error_occurred, error_message,
                   next_action, response, llm_analysis, llm_sql, calls>>

\* the intent analysis stage (ClickHouseAgent.analyze_intent of core.agent):
\* it runs the analyzer and records a failure in the error flag
agent_intent_analysis ==
    /\ impl = "core" /\ node = "agent_intent_analysis"
    /\ UNCHANGED other_vars
    /\ Enter("agent_intent_analysis")
    /\ \E r \in IntentResponses :
          LET result == intent_analyzer_run(user_question, r) IN
          /\ llm_analysis' = r
          /\ analysis_result' = result
          /\ error_occurred' = ~result.success
          /\ error_message' = IF result.success THEN error_message ELSE result.error
    /\ Called("analyzer")
    /\ node' = core_next_node(node, query_type)
    /\ UNCHANGED <<impl, user_question, query_type, sql_result, execution_result,
                   csv_export_result, final_response, next_action, response, llm_sql>>

\* the SQL generation stage (ClickHouseAgent.generate_sql of core.agent): it
\* is skipped once the error flag is set, and records a failure in it
agent_sql_generation ==
    /\ impl = "core" /\ node = "agent_sql_generation"
    /\ UNCHANGED other_vars
    /\ Enter("agent_sql_generation")
    /\ IF error_occurred
       THEN UNCHANGED <<sql_result, error_occurred, error_message, llm_sql, calls>>
       ELSE \E r \in SqlResponses :
               LET result == sql_generator_run(intent_data(analysis_result), r) IN
               /\ llm_sql' = r
               /\ sql_result' = result
               /\ error_occurred' = ~result.success
               /\ error_message' = IF result.success THEN error_message ELSE result.error
               /\ Called("synthesizer")
    /\ node' = core_next_node(node, query_type)
    /\ UNCHANGED <<impl, user_question, query_type, analysis_result, execution_result,
                   csv_export_result, final_response, next_action, response, llm_analysis>>

\* execute_query_node: the test that raises ValueError before the tool is run
no_sql_query(sql) == Get(sql, "sql_query", <<>>) = <<>>

\* execute_query_node
execute_query_node ==
    /\ impl = "core" /\ node = "execute_query"
    /\ UNCHANGED other_vars
    /\ Enter("execute_query")
    /\ IF no_sql_query(sql_result)
       THEN /\ execution_result' = [success |-> FALSE, error |-> "No SQL query to execute",
                                    message |-> "Query execution failed"]
            /\ next_action' = "format_response"
            /\ error_occurred' = TRUE
            /\ error_message' = "No SQL query to execute"
            /\ UNCHANGED calls
       ELSE \E o \in QueryOutcomes :
               /\ Called("query")
               /\ IF o.kind = "raise"
                  THEN /\ execution_result' =
                             [success |-> FALSE, error |-> "query tool raised",
                              message |-> "Query execution failed"]
                       /\ next_action' = "format_response"
                       /\ error_occurred' = TRUE
                       /\ error_message' = "query tool raised"
                  ELSE LET result == query_executor_result(o, sql_result.sql_query) IN
                       /\ execution_result' = result
                       /\ next_action' = IF has_data(result) THEN "export_csv"
                                         ELSE "format_response"
                       /\ UNCHANGED <<error_occurred, error_message>>
    /\ node' = core_next_node(node, query_type)
    /\ UNCHANGED <<impl, user_question, query_type, analysis_result, sql_result,
                   csv_export_result, final_response, response, llm_analysis, llm_sql>>

\* export_csv_node
export_csv_node ==
    /\ impl = "core" /\ node = "export_csv"
    /\ UNCHANGED other_vars
    /\ Enter("export_csv")
    /\ IF has_data(execution_result)
       THEN \E o \in ExportOutcomes :
               /\ Called("export")
               /\ csv_export_result' =
                     IF o = "raise"
                     THEN [success |-> FALSE, error |-> "export tool raised",
                           message |-> "CSV export failed"]
                     ELSE csv_exporter_result(o)
       ELSE /\ csv_export_result' =
                  [success |-> FALSE, message |-> "No data available for CSV export"]
            /\ UNCHANGED calls
    /\ next_action' = "format_response"
    /\ node' = core_next_node(node, query_type)
    /\ UNCHANGED <<impl, user_question, query_type, analysis_result, sql_result,
                   execution_result, final_response, error_occurred, error_message,
                   response, llm_analysis, llm_sql>>

\* _handle_schema_request of tool_nodes.py
handle_schema_request_core(q) ==
    LET question == Lower(q)
        parts == SplitWords(q)
    IN  IF Contains(question, KW_list_tables) \/ Contains(question, KW_show_tables)
        THEN [success |-> TRUE, tables |-> TABLE_SCHEMAS, message |-> "Found tables"]
        ELSE IF Len(parts) > 1
        THEN IF Upper(parts[2]) \in TABLE_SCHEMAS
             THEN [success |-> TRUE, schema |-> Upper(parts[2]),
                   table_name |-> Upper(parts[2]), message |-> "Schema for table"]
             ELSE [success |-> FALSE,
                   error |-> [text |-> "Table not found", table |-> Upper(parts[2])],
                   available_tables |-> TABLE_SCHEMAS]
        ELSE [success |-> TRUE, tables |-> TABLE_SCHEMAS,
              message |-> "All available table schemas"]

\* format_response_node: the response it builds when nothing raises
core_formatted_response ==
    IF query_type = "help_request" THEN format_help_response
    ELSE IF query_type = "schema_request"
    THEN response_formatter_run(handle_schema_request_core(user_question), "schema",
                                EmptyDict)
    ELSE response_formatter_run(execution_result, "query", csv_export_result)

\* format_response_node.  ResponseFormatterTool._run and format_help_response
\* return for every argument and state["query_execution"] is set on the data
\* path, so that the except branch is not taken.
format_response_node ==
    /\ impl = "core" /\ node = "format_response"
    /\ UNCHANGED other_vars
    /\ Enter("format_response")
    /\ Called("format")
    /\ final_response' = core_formatted_response
    /\ node' = core_next_node(node, query_type)
    /\ UNCHANGED <<error_occurred, error_message, impl, user_question, query_type, analysis_result, sql_result,
                   execution_result, csv_export_result, next_action, response, llm_analysis, llm_sql>>

\* the end of the request: the final response is what the caller gets
graph_agent_return ==
    /\ impl = "core" /\ node = "END"
    /\ UNCHANGED other_vars
    /\ response' = final_response
    /\ node' = "returned"
    /\ UNCHANGED <<impl, user_question, query_type, analysis_result, sql_result,
                   execution_result, csv_export_result, final_response, error_occurred,
                   error_message, next_action, llm_analysis, llm_sql, calls, visited>>

-----------------------------------------------------------------------------

Next ==
    \/ route_question
    \/ handle_help_request
    \/ handle_schema_request
    \/ analyze_intent
    \/ generate_sql
    \/ execute_query
    \/ export_csv
    \/ format_response
    \/ process_question_return
    \/ router_node
    \/ agent_intent_analysis
    \/ agent_sql_generation
    \/ execute_query_node
    \/ export_csv_node
    \/ format_response_node
    \/ graph_agent_return

Spec == Init /\ [][Next]_vars

\* every node of a graph runs to its end, and graph.invoke runs the next one
FairSpec == Spec /\ WF_vars(Next)

-----------------------------------------------------------------------------
(* The calls of the bridge.  A response is represented by the request whose *)
(* processing built it and by the code that built it.                      *)

\* what agent.process_question does in the thread of a call: it returns a
\* text, the response of the formatting stage or the error text of a
\* pipeline that failed, having written an export file or not, or it raises
AgentOutcomes ==
    {[kind |-> "ok", exported |-> e, failed |-> f] : e, f \in BOOLEAN}
        \cup {[kind |-> "raise"]}

\* process_question: the result when initialize_agent returns False
agent_not_initialized(r) ==
    [kind |-> "result", success |-> FALSE, source |-> "bridge", request |-> r,
     response |-> "Agent Initialization Failed", error |-> "Agent not initialized"]

\* process_question: the result when test_database_connection fails
database_connection_failed(r) ==
    [kind |-> "result", success |-> FALSE, source |-> "bridge", request |-> r,
     response |-> "Database Connection Failed",
     error |-> "Database connection failed - server may be unreachable"]

\* run_agent: the value it assigns to self.thread_result
run_agent_result(r, o) ==
    IF o.kind = "ok"
    THEN [kind |-> "result", success |-> TRUE, source |-> "thread", request |-> r,
          response |-> IF o.failed THEN "error response" ELSE "format_response",
          message |-> "Question processed successfully"]
    ELSE [kind |-> "result", success |-> FALSE, source |-> "thread", request |-> r,
          response |-> "LangGraph Processing Error", error |-> "agent raised"]

\* process_question_with_timeout: the result when the thread finished and
\* self.thread_result is empty
no_result_returned(r) ==
    [kind |-> "result", success |-> FALSE, source |-> "bridge", request |-> r,
     response |-> "Unknown Error", error |-> "No result returned"]

\* mutant of processing_timeout: after the timeout the caller goes on to
\* read self.thread_result, as when the thread has ended
processing_timeout_falls_through(r) ==
    IF thread_result # None THEN thread_result ELSE no_result_returned(r)

\* process_question_with_timeout: the result when the thread is still alive
\* after the join
processing_timeout(r) ==
    [kind |-> "result", success |-> FALSE, source |-> "bridge", request |-> r,
     response |-> "Processing Timeout", error |-> "Processing timeout"]

\* mutant of bridge_process_question: the thread is started whatever the
\* connection test says
bridge_process_question_untested(r) ==
    /\ caller[r] = "idle"
    /\ \E init_ok \in BOOLEAN :
          IF ~agent_ready /\ ~init_ok
          THEN /\ returned' = [returned EXCEPT ![r] = agent_not_initialized(r)]
               /\ caller' = [caller EXCEPT ![r] = "done"]
               /\ UNCHANGED <<agent_ready, connection_tested, thread_result, worker>>
          ELSE /\ agent_ready' = TRUE
               /\ thread_result' = None
               /\ worker' = [worker EXCEPT ![r] = "running"]
               /\ caller' = [caller EXCEPT ![r] = "joining"]
               /\ UNCHANGED <<connection_tested, returned>>
    /\ UNCHANGED <<latest_csv, attachments>>
    /\ UNCHANGED <<request_vars, first_run>>

\* process_question, up to the join of process_question_with_timeout: it
\* initializes the agent and tests the connection when that is not done yet,
\* clears self.thread_result and starts the thread
bridge_process_question(r) ==
    /\ caller[r] = "idle"
    /\ \E init_ok, db_ok \in BOOLEAN :
          IF ~agent_ready /\ ~init_ok
          THEN /\ returned' = [returned EXCEPT ![r] = agent_not_initialized(r)]
               /\ caller' = [caller EXCEPT ![r] = "done"]
               /\ UNCHANGED <<agent_ready, connection_tested, thread_result, worker>>
          ELSE IF ~connection_tested /\ ~db_ok
          THEN /\ agent_ready' = TRUE
               /\ returned' = [returned EXCEPT ![r] = database_connection_failed(r)]
               /\ caller' = [caller EXCEPT ![r] = "done"]
               /\ UNCHANGED <<connection_tested, thread_result, worker>>
          ELSE /\ agent_ready' = TRUE
               /\ connection_tested' = TRUE
               /\ thread_result' = None
               /\ worker' = [worker EXCEPT ![r] = "running"]
               /\ caller' = [caller EXCEPT ![r] = "joining"]
               /\ UNCHANGED returned
    /\ UNCHANGED <<latest_csv, attachments>>
    /\ UNCHANGED <<request_vars, first_run>>

\* run_agent, the target of the thread: the agent processes the question of
\* the call and the outcome is stored in self.thread_result
run_agent(r) ==
    /\ worker[r] = "running"
    /\ \E o \in AgentOutcomes :
          /\ thread_result' = run_agent_result(r, o)
          /\ latest_csv' = IF o.kind = "ok" /\ o.exported THEN r ELSE latest_csv
    /\ worker' = [worker EXCEPT ![r] = "finished"]
    /\ UNCHANGED <<agent_ready, connection_tested, caller, returned, attachments>>
    /\ UNCHANGED <<request_vars, first_run>>

\* process_question_with_timeout: the join ends by its timeout, the thread
\* is alive and goes on running
join_timeout(r) ==
    /\ caller[r] = "joining" /\ worker[r] = "running"
    /\ returned' = [returned EXCEPT ![r] = processing_timeout(r)]
    /\ caller' = [caller EXCEPT ![r] = "done"]
    /\ UNCHANGED <<agent_ready, connection_tested, thread_result, worker, latest_csv,
                   attachments>>
    /\ UNCHANGED <<request_vars, first_run>>

\* process_question_with_timeout: the thread has ended, the caller returns
\* what self.thread_result holds
join_return(r) ==
    /\ caller[r] = "joining" /\ worker[r] = "finished"
    /\ returned' = [returned EXCEPT ![r] =
                       IF thread_result # None THEN thread_result
                       ELSE no_result_returned(r)]
    /\ caller' = [caller EXCEPT ![r] = "done"]
    /\ UNCHANGED <<agent_ready, connection_tested, thread_result, worker, latest_csv,
                   attachments>>
    /\ UNCHANGED <<request_vars, first_run>>

\* TelmiApp._extract_attachments: the most recent file of exports/, whatever
\* the response is
extract_attachments == latest_csv

\* TelmiApp: the message added for the result of the bridge, with the
\* attachments of a successful result
add_agent_message(r) ==
    /\ caller[r] = "done"
    /\ attachments' = [attachments EXCEPT ![r] =
                          IF returned[r].success THEN extract_attachments ELSE 0]
    /\ caller' = [caller EXCEPT ![r] = "shown"]
    /\ UNCHANGED <<agent_ready, connection_tested, thread_result, worker, returned,
                   latest_csv>>
    /\ UNCHANGED <<request_vars, first_run>>

\* the bridge is created once, when the application starts
BridgeInit == Init /\ impl = "core" /\ user_question = Q_list_tables

BridgeNext ==
    \/ \E r \in Requests : bridge_process_question(r)
    \/ \E r \in Requests : run_agent(r)
    \/ \E r \in Requests : join_timeout(r)
    \/ \E r \in Requests : join_return(r)
    \/ \E r \in Requests : add_agent_message(r)

\* the sessions of the application call the bridge in any order, each thread
\* runs at its own speed
BridgeSpec == BridgeInit /\ [][BridgeNext]_vars

-----------------------------------------------------------------------------
(* Two invocations of ClickHouseAgent.process_question with one question   *)

\* process_question is invoked again with the same question: it builds a new
\* AgentState, and the agent and its tools keep nothing of the invocation
\* before.  first_run keeps what that invocation was given and what it
\* produced.
process_question_again ==
    /\ impl = "main" /\ node = "returned" /\ first_run = None
    /\ first_run' = [route |-> query_type, llm_analysis |-> llm_analysis,
                     llm_sql |-> llm_sql, sql_result |-> sql_result,
                     execution_result |-> execution_result,
                     csv_export_result |-> csv_export_result,
                     response |-> response, visited |-> visited, calls |-> calls]
    /\ node' = "route_question"
    /\ query_type' = "unset"
    /\ analysis_result' = EmptyDict
    /\ sql_result' = EmptyDict
    /\ execution_result' = EmptyDict
    /\ csv_export_result' = EmptyDict
    /\ final_response' = [kind |-> "empty"]
    /\ response' = [kind |-> "none"]
    /\ llm_analysis' = [kind |-> "none"]
    /\ llm_sql' = [kind |-> "none"]
    /\ calls' = NoCalls
    /\ visited' = <<>>
    /\ UNCHANGED <<impl, user_question, error_occurred, error_message, next_action>>
    /\ UNCHANGED bridge_vars

\* the number of tables the analyzer proposes at most when a question is
\* asked twice
TwiceMaxTables == 1

TwiceInit == Init /\ impl = "main" /\ user_question \in {Q_help, Q_list_tables, Q_count}

\* the steps of two invocations, the analyzer proposing TwiceMaxTables tables
\* at most.  Of the second invocations, those are
\* followed in which the analyzer gives the answer it gave in the first, with
\* the same or another intent_confidence, and
\* the synthesizer gives the answer it gave in the first or the plain SELECT,
\* and the database, which has not changed, answers the query of the first
\* invocation as it did then
TwiceNext ==
    \/ route_question
    \/ handle_help_request
    \/ handle_schema_request
    \/ /\ IF first_run # None
          THEN llm_analysis' \in
                  IF first_run.llm_analysis.kind = "json"
                  THEN {[first_run.llm_analysis EXCEPT !.intent_confidence = c] :
                           c \in ConfidenceLevels}
                  ELSE {first_run.llm_analysis}
          ELSE TRUE
       /\ analyze_intent
       /\ llm_analysis'.kind = "json" =>
              Len(llm_analysis'.required_tables) <= TwiceMaxTables
    \/ /\ IF first_run # None
          THEN llm_sql' \in {first_run.llm_sql, [kind |-> "text", text |-> SQL_plain]}
          ELSE TRUE
       /\ generate_sql
    \/ /\ IF /\ first_run # None
             /\ Get(sql_result, "sql_query", <<>>)
                   = Get(first_run.sql_result, "sql_query", <<>>)
          THEN execution_result' = first_run.execution_result
          ELSE TRUE
       /\ execute_query
    \/ export_csv
    \/ format_response
    \/ process_question_return
    \/ process_question_again

TwiceSpec == TwiceInit /\ [][TwiceNext]_vars

-----------------------------------------------------------------------------
(* The error flag of a request *)

\* a stage record that reports a failure
record_failed(d) == HasKey(d, "success") /\ ~d.success

\* src/main.py keeps no flag: a failed stage leaves a record with success
\* False, which the next stages and _format_response test
main_error_flag ==
    record_failed(analysis_result) \/ record_failed(sql_result)
        \/ record_failed(execution_result)

\* the error flag: state["error_occurred"] in src/core
ErrorFlag == IF impl = "core" THEN error_occurred ELSE main_error_flag

\* the edge the graph follows out of the current node
next_node == IF impl = "main" THEN main_next_node(node, query_type)
             ELSE core_next_node(node, query_type)

\* the runs of the SQL synthesizer, the query tool and the export tool
ToolCalls == <<calls.synthesizer, calls.query, calls.export>>

Visited(n) == \E i \in DOMAIN visited : visited[i] = n

-----------------------------------------------------------------------------
(* Properties *)

C2_NoWorkAfterFailure ==
    query_type = "data_query" =>
        /\ record_failed(analysis_result) => ToolCalls = <<0, 0, 0>>
        /\ record_failed(sql_result) => (calls.query = 0 /\ calls.export = 0)
        /\ record_failed(execution_result) => calls.export = 0

\* C2 witness: the SQL generation failed and the request has ended.
C2_Witness ==
    /\ query_type = "data_query" /\ node = "returned"
    /\ calls.synthesizer = 1 /\ record_failed(sql_result)

\* C3 (as stated): when the request ends, the query tool was run at most
\* once, the export tool at most once, and the formatting stage exactly once.
C3_OncePerRequest ==
    node = "returned" =>
        (calls.query <= 1 /\ calls.export <= 1 /\ calls.format = 1)

\* C4 (as stated): every request that ends has gone through the formatting
\* stage and has a final_response that is not empty.
C4_AlwaysFormatted ==
    node = "returned" =>
        (Visited("format_response") /\ final_response.kind # "empty")

\* the analyzer proposed tables, and none of them is in the schema
NoValidTable(r) ==
    /\ r.kind = "json"
    /\ \A i \in DOMAIN r.required_tables : r.required_tables[i] \notin TABLE_SCHEMAS

DenylistedTexts ==
    {text \in SqlTexts :
        \E i \in DOMAIN dangerous_keywords :
            Contains(Upper(clean_sql(Strip(text))), dangerous_keywords[i])}

\* the SQL synthesizer returned such a statement
Denylisted(r) == r.kind = "text" /\ r.text \in DenylistedTexts

\* C7: when the statement the SQL synthesizer returned holds a denylisted
\* keyword, the query tool is never run in the request (stated by its
\* contrapositive: when the query tool was run, the statement holds none).
C7_UnsafeNeverExecuted ==
    calls.query > 0 => ~Denylisted(llm_sql)

\* C7 witness: a SELECT statement followed by a DROP was returned, and the
\* request has ended.
C7_Witness ==
    Denylisted(llm_sql) /\ llm_sql.text = SQL_select_drop /\ node = "returned"

\* C8 (as stated): when the query tool was run and the execution failed, the
\* error flag is true when the formatting stage starts.
C8_ExecutionFailureFlagged ==
    (node = "format_response" /\ calls.query = 1
        /\ ~Get(execution_result, "success", FALSE))
        => ErrorFlag

\* C9: the export tool is run in the export stage, and only there, exactly
\* when the query succeeded with at least one row; otherwise the stage leaves
\* no export file and does not change the error flag.
C9_ExportGate ==
    [][LET rows == /\ Get(execution_result, "success", FALSE)
                   /\ Get(Get(execution_result, "result", EmptyDict), "data", 0) >= 1
       IN  /\ calls'.export # calls.export =>
                (node = "export_csv" /\ rows /\ calls'.export = calls.export + 1)
           /\ (node = "export_csv" /\ rows) => calls'.export = calls.export + 1
           /\ (node = "export_csv" /\ ~rows) =>
                /\ ~Get(csv_export_result', "success", FALSE)
                /\ ~HasKey(csv_export_result', "file_path")
                /\ ErrorFlag' = ErrorFlag]_vars

\* C9 witness: the export tool was run after a query that returned rows.
C9_Witness ==
    /\ calls.export = 1 /\ node = "format_response"
    /\ execution_result.result.data >= 1

\* C10: when the query succeeded with zero rows, the final response is the
\* "no data" message and the error flag is false.
C10_NoData ==
    (node \in {"END", "returned"} /\ calls.query = 1
        /\ Get(execution_result, "success", FALSE)
        /\ execution_result.result.data = 0)
        => (final_response.kind = "no_data" /\ ~ErrorFlag)

\* C10 witness: a request has ended with the "no data" message.
C10_Witness ==
    /\ node = "returned" /\ calls.query = 1
    /\ Get(execution_result, "success", FALSE)
    /\ response.kind = "no_data"

\* the export tool was run in the request and produced no file
ExportFailed == calls.export = 1 /\ ~Get(csv_export_result, "success", FALSE)

\* C11 (as stated): when the export tool failed after a query that returned
\* rows, the request ends with the error flag false and with the formatted
\* query response, which reports the rows of the query and lists no export
\* file.
C11_ExportFailureNotFatal ==
    (node = "returned" /\ ExportFailed) =>
        /\ ~ErrorFlag
        /\ Visited("format_response")
        /\ final_response.kind = "query"
        /\ final_response.record_count = execution_result.result.data
        /\ ~final_response.csv_listed

\* the error recorded by the first stage of the data path that failed
FirstError ==
    IF record_failed(analysis_result) THEN analysis_result.error
    ELSE IF record_failed(sql_result) THEN sql_result.error
    ELSE execution_result.error

\* C12 (as stated): when a DATA_QUERY request in which a stage failed has
\* been formatted, the final response is the error response and its error is
\* the one recorded by the first stage that failed.
C12_FirstErrorReported ==
    (query_type = "data_query" /\ node = "returned" /\ Visited("format_response")
        /\ main_error_flag)
        => (final_response.kind = "error" /\ final_response.error = FirstError)

\* the call r of the bridge ended by the timeout of its join
TimedOut(r) == Get(returned[r], "error", "") = "Processing timeout"

C14_NothingLateSurfaced ==
    \A r, s \in Requests :
        TimedOut(r) =>
            /\ ~(Get(returned[s], "source", "") = "thread" /\ returned[s].request = r)
            /\ attachments[s] # r

\* C15 (as stated): a caller that is given the result of a thread is given
\* the result of the thread of its own call.
C15_OwnResult ==
    \A r \in Requests :
        Get(returned[r], "source", "") = "thread" => returned[r].request = r

\* the three routes
Routes == {"data_query", "schema_request", "help_request"}

\* the question holds one of the schema keywords, in any letter case
HasSchemaKeyword(q) == \E keyword \in schema_keywords : Contains(Lower(q), keyword)

\* the question holds one of the help keywords, in any letter case
HasHelpKeyword(q) == \E keyword \in help_keywords : Contains(Lower(q), keyword)

\* C16 (as stated): a question that holds a schema keyword is classified
\* SCHEMA_REQUEST.
C16_SchemaKeyword ==
    (query_type # "unset" /\ HasSchemaKeyword(user_question))
        => query_type = "schema_request"

\* C17: once the classifier has run, the route is one of the three routes,
\* and it is DATA_QUERY for a question that holds no schema keyword and no
\* help keyword.
C17_TotalWithDefault ==
    visited # <<>> =>
        /\ query_type \in Routes
        /\ \/ query_type = "data_query"
           \/ HasSchemaKeyword(user_question)
           \/ HasHelpKeyword(user_question)

\* C17 witness: a question without a keyword was classified DATA_QUERY by
\* router_node and its request has ended.
C17_Witness ==
    /\ impl = "core" /\ user_question = Q_count /\ query_type = "data_query"
    /\ node = "returned"

\* C18 (as stated): a question that holds a schema keyword and a help keyword
\* is classified SCHEMA_REQUEST.
C18_SchemaBeforeHelp ==
    (query_type # "unset" /\ HasSchemaKeyword(user_question)
        /\ HasHelpKeyword(user_question))
        => query_type = "schema_request"

\* the stages of the data path
DataPathNodes ==
    {"analyze_intent", "generate_sql", "agent_intent_analysis", "agent_sql_generation",
     "execute_query", "export_csv"}

\* C19 (as stated): when the request for "top 5 customers by usage" reaches
\* the formatting stage, it was classified DATA_QUERY and has gone through
\* the intent analysis, the SQL generation, the execution and the export.
C19_Top5IsDataQuery ==
    (user_question = Q_top5 /\ Visited("format_response")) =>
        /\ query_type = "data_query"
        /\ Visited("analyze_intent") \/ Visited("agent_intent_analysis")
        /\ Visited("generate_sql") \/ Visited("agent_sql_generation")
        /\ Visited("execute_query") /\ Visited("export_csv")

\* C20: in a request routed SCHEMA_REQUEST or HELP_REQUEST no stage of the
\* data path is entered and the analyzer, the SQL synthesizer, the query tool
\* and the export tool are never run; the request ends with one run of the
\* formatting stage.
C20_NoDataPath ==
    query_type \in {"schema_request", "help_request"} =>
        /\ \A i \in DOMAIN visited : visited[i] \notin DataPathNodes
        /\ calls.analyzer = 0 /\ ToolCalls = <<0, 0, 0>>
        /\ node = "returned" => (Visited("format_response") /\ calls.format = 1)

\* C20 witness: the request for "list tables" has ended in the core workflow
\* with the list of the tables.
C20_Witness ==
    /\ impl = "core" /\ user_question = Q_list_tables /\ node = "returned"
    /\ query_type = "schema_request" /\ final_response.kind = "schema_tables"

\* the question of each call of the bridge: "help", "list tables", and a
\* data question for the other calls
question_of(r) == IF r = 1 THEN Q_help ELSE IF r = 2 THEN Q_list_tables ELSE Q_count

\* C21 (as stated): a caller whose question is routed HELP_REQUEST or
\* SCHEMA_REQUEST is never returned a failure result.
C21_HelpSchemaNeverFail ==
    \A r \in Requests :
        (/\ returned[r] # None
         /\ router_node_type(question_of(r)) \in {"help_request", "schema_request"})
        => returned[r].success

\* C22: the question "help" is routed HELP_REQUEST, and a help request is
\* answered with the fixed usage text of format_help_response, without any
\* call of the analyzer, the synthesizer, the database or the export.
C22_HelpFixedText ==
    /\ (user_question = Q_help /\ visited # <<>>) => query_type = "help_request"
    /\ query_type = "help_request" =>
        /\ calls.analyzer = 0 /\ ToolCalls = <<0, 0, 0>>
        /\ Visited("format_response") => final_response = format_help_response
        /\ node = "returned" => response = format_help_response

\* C22 witness: the question "help" has been answered by the core workflow.
C22_Witness ==
    /\ impl = "core" /\ user_question = Q_help /\ node = "returned"
    /\ query_type = "help_request" /\ response = format_help_response

\* C23 (as stated): the response to a schema question that names a table
\* outside the schema ("schema ORDERS") lists the valid table names.
C23_NotFoundListsTables ==
    (user_question = Q_schema_bogus /\ Visited("format_response")) =>
        /\ query_type = "schema_request"
        /\ HasKey(final_response, "available_tables")
        /\ final_response.available_tables = TABLE_SCHEMAS

\* C24 (as stated): the response to "describe table CUSTOMER" is the column
\* list of CUSTOMER, and the response to a schema question that names no table
\* is the catalog of the tables.
C24_TableOrCatalog ==
    /\ (user_question = Q_describe_customer /\ Visited("format_response")) =>
          final_response = [kind |-> "schema_table", table_name |-> T_CUSTOMER]
    /\ (user_question \in {Q_list_tables, Q_help_schema} /\ Visited("format_response")) =>
          final_response.kind = "schema_tables"

\* C25 (as stated): every value process_question returns has the fields
\* success, response, attachments and error.
C25_UniformShape ==
    \A r \in Requests :
        returned[r] # None =>
            {"success", "response", "attachments", "error"} \subseteq DOMAIN returned[r]

\* C26 (as stated): no stage raises, and every record a stage has written
\* has a success field.
C26_NoStageRaises ==
    /\ node # "RAISED"
    /\ \A rec \in {analysis_result, sql_result, execution_result, csv_export_result} :
          rec # EmptyDict => HasKey(rec, "success")

\* the texts that stand for str(e), the message of an exception caught by
\* execute_query_node, export_csv_node, run_agent and process_question
exception_texts ==
    {"query tool raised", "export tool raised", "agent raised", "graph.invoke raised"}

\* C27 (as stated): the response returned for a data question carries no
\* message of an exception.
C27_NoRawErrorText ==
    (node = "returned" /\ query_type = "data_query") =>
        \A f \in DOMAIN response \cap {"error", "exception"} :
            response[f] \notin exception_texts

\* the number of rows of a query result
row_count(result) ==
    IF HasKey(result, "result") THEN result.result.row_count ELSE 0

C29_SkippedStageWritesNothing ==
    [][(ErrorFlag /\ node \in {"generate_sql", "agent_sql_generation", "execute_query",
                               "export_csv"})
       => UNCHANGED <<analysis_result, sql_result, execution_result, csv_export_result,
                      error_occurred, error_message>>]_vars

\* C30 (as stated): in the record of a successful intent analysis the
\* required tables, the primary table and the two tables of every join are
\* tables of the schema.
C30_TablesInSchema ==
    (HasKey(analysis_result, "success") /\ analysis_result.success) =>
        LET table_analysis == analysis_result.table_analysis
            joins == Get(Get(analysis_result, "join_analysis", EmptyDict),
                         "required_joins", <<>>)
        IN  /\ \A i \in DOMAIN table_analysis.required_tables :
                  table_analysis.required_tables[i] \in TABLE_SCHEMAS
            /\ Get(table_analysis, "primary_table", T_RM) \in TABLE_SCHEMAS
            /\ \A i \in DOMAIN joins :
                  joins[i].from_table \in TABLE_SCHEMAS /\ joins[i].to_table \in TABLE_SCHEMAS

\* C31 (as stated): the SQL handed to the query tool holds no statement
\* separator, so no second statement.
C31_SingleStatement ==
    calls.query > 0 => ~Contains(Get(sql_result, "sql_query", <<>>), <<";">>)

\* C32 (as stated): a SELECT in a code fence, or followed by semicolons and
\* white space, is accepted, and the SQL stored has no fence and no
\* semicolon at its end.
C32_FenceAndSeparatorsRemoved ==
    (llm_sql.kind = "text" /\ llm_sql.text \in {SQL_fenced, SQL_semi, SQL_semis}) =>
        /\ sql_result.success
        /\ ~Contains(sql_result.sql_query, FENCE)
        /\ sql_result.sql_query[Len(sql_result.sql_query)] # ";"

\* C33 (as stated): the overall_confidence of a successful analysis of n > 0
\* proposed tables, k of them in the schema, is the mean of the two
\* confidences the analyzer reported and of k/n (here their sum, in
\* hundredths).
C33_ConfidenceUsesValidFraction ==
    (/\ HasKey(analysis_result, "success") /\ analysis_result.success
     /\ llm_analysis.kind = "json" /\ llm_analysis.required_tables # <<>>) =>
        LET proposed == llm_analysis.required_tables
            valid == SelectSeq(proposed, LAMBDA t : t \in TABLE_SCHEMAS)
        IN  analysis_result.overall_confidence =
                llm_analysis.language_confidence + llm_analysis.intent_confidence
                    + (100 * Len(valid)) \div Len(proposed)

\* C34: a second invocation in which the analyzer's answer differs from the
\* first at most in the reported intent_confidence asks the synthesizer
\* exactly when the first did; and when the synthesizer, the database and
\* the export answer as in the first, it enters the same stages, runs the
\* same tools, and sends the same query to the database.
C34_ConfidenceNeverGates ==
    (first_run # None /\ node = "returned") =>
        /\ calls.synthesizer = first_run.calls.synthesizer
        /\ (/\ llm_sql = first_run.llm_sql
            /\ execution_result = first_run.execution_result
            /\ csv_export_result = first_run.csv_export_result)
           => /\ visited = first_run.visited
              /\ calls = first_run.calls
              /\ Get(sql_result, "sql_query", <<>>)
                    = Get(first_run.sql_result, "sql_query", <<>>)
              /\ response = first_run.response

\* C34 witness: "how many cells" was asked twice, the analyzer reported
\* another intent_confidence the second time, and both invocations ran the
\* query and the export.
C34_Witness ==
    /\ first_run # None /\ node = "returned" /\ user_question = Q_count
    /\ llm_analysis.kind = "json"
    /\ llm_analysis.intent_confidence # first_run.llm_analysis.intent_confidence
    /\ calls.query = 1 /\ calls.export = 1 /\ calls = first_run.calls
    /\ visited = first_run.visited

\* C35: router_node and ClickHouseAgent._decide_route assign the same route
\* to the question of the request.
C35_ClassifiersAgree ==
    router_node_type(user_question) = decide_route(user_question)

\* C36: a SELECT whose column name merely contains a denylisted word
\* ("SELECT created_at FROM t") passes the validation of the generated SQL.
C36_SubstringAccepted ==
    (llm_sql.kind = "text" /\ llm_sql.text = SQL_created) =>
        /\ sql_result.success
        /\ sql_result.sql_query = SQL_created

\* C37: a call of the bridge whose pipeline ended in an error returns
\* success False, and a call that returns success True carries the response
\* of a pipeline that did not fail.
C37_SuccessMeansNoError ==
    \A r \in Requests :
        returned[r] # None =>
            /\ returned[r].response = "error response" => ~returned[r].success
            /\ returned[r].success => returned[r].response = "format_response"

\* C38: the thread that runs the agent for a call exists only when the agent
\* is initialized and a connection test has succeeded, and a call refused
\* for a failed initialization or a failed connection test has started no
\* thread.
C38_PipelineOnlyWhenReady ==
    \A r \in Requests :
        /\ worker[r] # "none" => (agent_ready /\ connection_tested)
        /\ (returned[r] # None /\ returned[r].source = "bridge"
              /\ returned[r].response \in
                    {"Agent Initialization Failed", "Database Connection Failed"})
           => (worker[r] = "none" /\ ~returned[r].success)

\* C38 witness: one call was refused because the connection test failed and
\* started no thread; a later call found the database, and its thread ran
\* the agent to a result.
C38_Witness ==
    \E r, s \in Requests :
        /\ returned[r] = database_connection_failed(r) /\ worker[r] = "none"
        /\ worker[s] = "finished" /\ returned[s] # None /\ returned[s].success
        /\ agent_ready /\ connection_tested

\* C39: the attachment stored with the message of a call is a file written
\* by the pipeline of that call, or there is none.
C39_OwnAttachments ==
    \A r \in Requests : attachments[r] \in {0, r}

====
